---- MODULE Spec2Model ----
(***************************************************************************)
(* State-machine model of the esp-fe recording / transcription client:    *)
(*   - TranscriptionService (src/src/app/services/transcription.service.ts)*)
(*     the conversation correlator and the HTTP client;                    *)
(*   - DashboardComponent                                                  *)
(*     (src/src/app/components/dashboard/dashboard.component.ts, the       *)
(*     revision starting at line 269): capture, automatic transcription,   *)
(*     response audio, teardown.                                           *)
(* The browser (getUserMedia, MediaRecorder, timers, object URLs) and the  *)
(* backend are the environment: their callbacks are separate actions.      *)
(***************************************************************************)
EXTENDS Naturals, Sequences, FiniteSets, TLC

(***************************************************************************)
(* Bounds of the model.                                                    *)
(***************************************************************************)
MaxCalls == 3
MaxClears == 1
MaxRecorders == 1
MaxFragments == 2
MaxDashCalls == 2
MaxPlaying == 2
MaxPasses == 2
MaxRepeats == 2
MaxClientCalls == 2
MaxPending == 1

(***************************************************************************)
(* Values.                                                                 *)
(***************************************************************************)
Null == "<null>"
Undefined == "<undefined>"
NoUrl == 0
NoRecorder == 0
\* no callback outstanding: failure = second failure handlers of failed
\* response-audio elements, recording = play() promises of playRecording,
\* copy = clipboard promises of copyTranscription
NoPending == [failure |-> 0, recording |-> 0, copy |-> 0]

\* client-chosen session identifiers (conv_<timestamp>_<random-suffix>)
Sessions == {"conv_1_a", "conv_2_b"}
\* identifiers the backend may answer /conversation/start with
BackendIds == {"", "srv 1"}
\* the keys the correlator is called with: session identifiers, and undefined
\* (a transcribeAudioAsMP3 call made without the conversationId argument)
Keys == Sessions \cup {Undefined}

\* failed HTTP exchanges: HttpErrorResponse (status, error.message) or a
\* client-side ErrorEvent
HttpErrors ==
  { [event |-> FALSE, status |-> 0, detail |-> ""],
    [event |-> FALSE, status |-> 500, detail |-> ""] }

\* /record success payloads: transcription text and optional base64 audio
\* ("!!" is not base64: window.atob throws on it)
Responses ==
  { [transcription |-> "hello", audioBuffer |-> ""],
    [transcription |-> "hello", audioBuffer |-> "QUJD"],
    [transcription |-> "hello", audioBuffer |-> "!!"] }

\* failed HTTP exchanges the client is driven with on its own: the statuses of
\* the normalization table and one outside it, with and without a detail
\* (error.error.message), and a client-side ErrorEvent
Statuses == {0, 400, 413, 422, 429, 500, 503, 418}
Details == {"", "Custom error message"}
ClientErrors ==
  { [event |-> FALSE, status |-> st, detail |-> d] : st \in Statuses, d \in Details }
    \cup { [event |-> TRUE, status |-> 0, detail |-> "Network down"] }

\* sizes of the fragments the recorder may deliver (0 = empty fragment)
FragmentSizes == {0, 10}
\* the same for the capture operations on their own: two non-empty sizes, so
\* that the order of the fragments shows
CaptureFragmentSizes == {0, 10, 20}

VARIABLES
  \* TranscriptionService
  startedConversations,   \* Set<string>
  conversationIdMapping,  \* Map<string,string>: [Keys -> id or Undefined]
  calls,                  \* transcribeAudioAsMP3 subscriptions, in call order
  outcome,                \* what the last finished subscription delivered
  clears,                 \* number of clearStartedConversations so far
  hist,                   \* history of the start exchanges (not program state)
  lastCall,               \* the latest transcribeAudioAsMP3 call, as it was made
  \* DashboardComponent fields
  isRecording,
  mediaRecorder,
  audioChunks,
  audioUrl,
  isTranscribing,
  transcriptionResult,
  transcriptionError,
  lastTranscriptionTime,
  transcriptionAudioUrl,
  isPlayingTranscriptionAudio,
  conversationId,
  \* browser environment
  recorders,              \* granted getUserMedia streams and their MediaRecorders
  urls,                   \* object URLs created so far
  playing,                \* response-audio elements currently playing
  pending,                \* browser callbacks of earlier calls still to come
  gum,                    \* startRecording calls awaiting getUserMedia
  notices,                \* snack-bar messages opened by the last step
  destroyed               \* ngOnDestroy has run

svcVars == <<startedConversations, conversationIdMapping, calls, outcome, clears, hist, lastCall>>
dashVars == <<isRecording, mediaRecorder, audioChunks, audioUrl, isTranscribing,
              transcriptionResult, transcriptionError, lastTranscriptionTime,
              transcriptionAudioUrl, isPlayingTranscriptionAudio, conversationId>>
envVars == <<recorders, urls, playing, pending, gum, notices, destroyed>>
vars == <<svcVars, dashVars, envVars>>

(***************************************************************************)
(* TranscriptionService: pure helpers.                                     *)
(***************************************************************************)
\* encodeURIComponent on the identifier universe: unreserved characters are
\* kept, the space of "srv 1" is percent-escaped, undefined is converted to
\* the string "undefined".
EncodeURIComponent(id) ==
  CASE id = "srv 1" -> "srv%201"
    [] id = Undefined -> "undefined"
    [] OTHER -> id

\* handleError: status -> message
HandleErrorGeneric(error) == "An error occurred during transcription"
HandleError(error) ==
  IF error.event
  THEN "Client Error: " \o error.detail
  ELSE CASE error.status = 0 ->
              "Unable to connect to transcription service. Please check if the server is running."
         [] error.status = 400 -> "Invalid audio format. Please try recording again."
         [] error.status = 413 ->
              "Audio file is too large. Please record a shorter audio clip."
         [] error.status = 422 ->
              "Audio format not supported. Please try a different recording format."
         [] error.status = 429 -> "Too many requests. Please wait a moment and try again."
         [] error.status = 500 ->
              "Server error occurred during transcription. Please try again later."
         [] error.status = 503 ->
              "Transcription service is temporarily unavailable. Please try again later."
         [] OTHER ->
              "Server Error (" \o ToString(error.status) \o "): "
                \o (IF error.detail = "" THEN "Unknown error" ELSE error.detail)

\* startedConversations.has(conversationId)
HasStartedBuggy(S) == FALSE
HasStarted(S) == S \in startedConversations

\* conversationIdMapping.get(conversationId) || conversationId
\* (undefined and the empty string are both falsy)
BackendConversationIdNoFallback(S) == conversationIdMapping[S]
BackendConversationId(S) ==
  IF conversationIdMapping[S] \notin {Undefined, ""}
  THEN conversationIdMapping[S]
  ELSE S

\* tap() of ensureConversationStarted: the started set after a successful start
TapStartedDropped(S) == startedConversations
TapStarted(S) == startedConversations \cup {S}

\* tap() of ensureConversationStarted: the mapping after a successful start
TapMapping(S, bid) == [conversationIdMapping EXCEPT ![S] = bid]

\* the sets after a failed start: catchError rethrows before tap runs
FailStartedMarks(S) == startedConversations \cup {S}
FailStarted(S) == startedConversations

\* clearStartedConversations: the started set and the mapping afterwards
ClearedStartedKept == startedConversations
ClearedStarted == {}
ClearedMapping == [s \in Keys |-> Undefined]

\* the conversationId query parameter of the /record request
RecordParamRaw(S, actualConversationId) == EncodeURIComponent(S)
RecordParam(S, actualConversationId) == EncodeURIComponent(actualConversationId)

(***************************************************************************)
(* History read off the call log (not program state).                      *)
(***************************************************************************)
CallIds == 1..Len(calls)
InFlightStarts(S) ==
  {c \in CallIds : calls[c].sid = S /\ calls[c].phase \in {"start", "startOnly"}}
\* hist.ok:    sessions whose start exchange has succeeded since the last clear
\* hist.fail:  sessions whose start exchange has failed, with no call since
\* hist.clear: sessions not called since the last clear
NoHistory == [ok |-> {}, fail |-> {}, clear |-> {}]

\* nothing delivered yet
NoOutcome == [kind |-> "none", value |-> Null]

\* no call made yet
NoCall ==
  [ sid |-> Undefined, priorOk |-> FALSE, afterFail |-> FALSE, afterClear |-> FALSE,
    mapped |-> Undefined, startIssued |-> FALSE, param |-> Undefined ]

(***************************************************************************)
(* Snack-bar messages.                                                     *)
(***************************************************************************)
MsgStarted == "Recording started..."
MsgMicError == "Error: Could not access microphone. Please check permissions."
MsgStopped == "Recording stopped. Processing..."
MsgSaved == "Recording saved successfully!"
MsgCleared == "Recording cleared."
MsgNoAudio == "No audio recording available to transcribe."
MsgSending == "Sending audio for transcription..."
MsgCompleted == "Transcription completed successfully!"
MsgFailed(message) == "Transcription failed: " \o message
MsgPlaying == "Playing transcription audio..."
MsgAudioError == "Error processing transcription audio"
MsgPlayError == "Error playing transcription audio"
MsgPlayRecordingError == "Error playing audio"
MsgCopied == "Transcription copied to clipboard!"
MsgCopyFailed == "Failed to copy to clipboard."
MsgTranscriptionCleared == "Transcription cleared."
MsgNewSession == "New session started!"

(***************************************************************************)
(* Browser helpers.                                                        *)
(***************************************************************************)
\* URL.revokeObjectURL(id) on the table of object URLs
RevokeObjectURL(table, id) ==
  [table EXCEPT ![id].revoked = @ + 1]

\* URL.createObjectURL(blob): the table with the new URL appended
CreateObjectURL(table, kind, blob) ==
  Append(table, [kind |-> kind, blob |-> blob, revoked |-> 0])

\* window.atob accepts the payload (well-formed base64)
AtobOk(base64Audio) == base64Audio # "!!"

\* createAudioUrlFromBuffer(audioBuffer): the table of object URLs afterwards
CreateAudioUrlFromBuffer(table) == CreateObjectURL(table, "response", <<>>)

\* createAudioUrlFromBase64(base64Audio): the table of object URLs afterwards
\* (base64ToArrayBuffer throws on a malformed payload, no URL is created)
CreateAudioUrlFromBase64(table, base64Audio) ==
  IF AtobOk(base64Audio) THEN CreateAudioUrlFromBuffer(table) ELSE table

\* MediaRecorder.stop(): a recording recorder starts stopping (its stop event
\* is delivered later); on an inactive recorder the call does nothing.
RecorderStop(table, r) ==
  IF table[r].state = "recording"
  THEN [table EXCEPT ![r].state = "stopping", ![r].signals = @ + 1]
  ELSE [table EXCEPT ![r].signals = @ + 1]
(***************************************************************************)
(* Initial state: a fresh service and a fresh component.                   *)
(***************************************************************************)
Init ==
  /\ startedConversations = {}
  /\ conversationIdMapping = [s \in Keys |-> Undefined]
  /\ calls = <<>>
  /\ outcome = NoOutcome
  /\ clears = 0
  /\ hist = NoHistory
  /\ lastCall = NoCall
  /\ isRecording = FALSE
  /\ mediaRecorder = NoRecorder
  /\ audioChunks = <<>>
  /\ audioUrl = NoUrl
  /\ isTranscribing = FALSE
  /\ transcriptionResult = Null
  /\ transcriptionError = Null
  /\ lastTranscriptionTime = 0
  /\ transcriptionAudioUrl = NoUrl
  /\ isPlayingTranscriptionAudio = FALSE
  /\ conversationId = "conv_1_a"
  /\ recorders = <<>>
  /\ urls = <<>>
  /\ playing = 0
  /\ pending = NoPending
  /\ gum = 0
  /\ notices = <<>>
  /\ destroyed = FALSE

(***************************************************************************)
(* TranscriptionService.transcribeAudioAsMP3 / ensureConversationStarted.  *)
(***************************************************************************)
\* The subscription created by transcribeAudioAsMP3(blob, S).subscribe(...):
\* a started session goes straight to the /record request, an unstarted one
\* issues the start-conversation request first.
NewCall(S, sub, blob) ==
  [ sid |-> S, sub |-> sub, blob |-> blob,
    startIssued |-> ~HasStarted(S),
    phase |-> IF HasStarted(S) THEN "record" ELSE "start",
    param |-> IF HasStarted(S)
              THEN RecordParam(S, BackendConversationId(S))
              ELSE Undefined,
    bid |-> Undefined,
    stale |-> FALSE ]       \* history: the component cleared its results meanwhile

\* if (conversationId): the conversationId query parameter of the /record
\* request of transcribeAudio(blob, conversationId?)
TranscribeAudioParam(id) ==
  IF id \notin {Undefined, ""} THEN EncodeURIComponent(id) ELSE Undefined

\* The subscription created by transcribeAudio(blob, id).subscribe(...): the
\* /record request is issued at once
NewTranscribeAudioCall(id, sub, blob) ==
  [ sid |-> id, sub |-> sub, blob |-> blob,
    startIssued |-> FALSE, phase |-> "record",
    param |-> TranscribeAudioParam(id), bid |-> Undefined,
    stale |-> FALSE ]

\* The subscription created by startConversation(S).subscribe(...): the
\* start-conversation request alone, outside ensureConversationStarted
NewStartConversationCall(S, sub) ==
  [ sid |-> S, sub |-> sub, blob |-> <<>>,
    startIssued |-> TRUE, phase |-> "startOnly", param |-> Undefined,
    bid |-> Undefined,
    stale |-> FALSE ]

\* The subscription created by checkServiceHealth().subscribe(...)
NewHealthCall(sub) ==
  [ sid |-> Undefined, sub |-> sub, blob |-> <<>>,
    startIssued |-> FALSE, phase |-> "health", param |-> Undefined,
    bid |-> Undefined,
    stale |-> FALSE ]

\* a subscription that has delivered its single value or its error
Done ==
  [ sid |-> Undefined, sub |-> Undefined, blob |-> <<>>,
    startIssued |-> FALSE, phase |-> "done", param |-> Undefined,
    bid |-> Undefined, stale |-> FALSE ]

\* catchError(this.handleError): the failed subscription ends with the error,
\* nothing is resubscribed
FailedCallRetried(call) == call
FailedCall(call) == Done

TranscribeAudioAsMP3(S, sub, blob) ==
  /\ calls' = Append(calls, NewCall(S, sub, blob))
  /\ hist' = [hist EXCEPT !.fail = @ \ {S}, !.clear = @ \ {S}]
  /\ lastCall' = [ sid |-> S,
                   priorOk |-> S \in hist.ok,
                   afterFail |-> S \in hist.fail,
                   afterClear |-> S \in hist.clear,
                   mapped |-> conversationIdMapping[S],
                   startIssued |-> NewCall(S, sub, blob).startIssued,
                   param |-> NewCall(S, sub, blob).param ]
  /\ UNCHANGED <<startedConversations, conversationIdMapping, outcome, clears>>

\* startConversation(S), called on its own
StartConversation(S, sub) ==
  /\ calls' = Append(calls, NewStartConversationCall(S, sub))
  /\ UNCHANGED <<startedConversations, conversationIdMapping, outcome, clears,
                 hist, lastCall>>

(***************************************************************************)
(* DashboardComponent: the subscriber of transcribeAudio().                *)
(***************************************************************************)
\* the number of callbacks outstanding
PendingTotal == pending.failure + pending.recording + pending.copy

\* playTranscriptionAudio() with a reference held: guarded by the flag
PlayStarts(flag) == ~flag

\* next: (response) => { ... }
OnNext(c, response) ==
  LET hasAudio == response.audioBuffer # ""
      decoded == hasAudio /\ AtobOk(response.audioBuffer)
      revoked == IF hasAudio /\ transcriptionAudioUrl # NoUrl
                 THEN RevokeObjectURL(urls, transcriptionAudioUrl)
                 ELSE urls
  IN /\ isTranscribing' = FALSE
     /\ transcriptionResult' = response.transcription
     /\ lastTranscriptionTime' = c
     /\ urls' = IF hasAudio
                THEN CreateAudioUrlFromBase64(revoked, response.audioBuffer)
                ELSE revoked
     /\ transcriptionAudioUrl' = IF decoded THEN Len(urls) + 1
                                 ELSE transcriptionAudioUrl
     /\ isPlayingTranscriptionAudio' =
          IF decoded THEN TRUE ELSE isPlayingTranscriptionAudio
     /\ playing' = IF decoded /\ PlayStarts(isPlayingTranscriptionAudio)
                   THEN playing + 1 ELSE playing
     /\ notices' = (IF decoded THEN <<MsgPlaying>>
                    ELSE IF hasAudio THEN <<MsgAudioError>> ELSE <<>>)
                   \o <<MsgCompleted>>
     /\ UNCHANGED <<isRecording, mediaRecorder, audioChunks, audioUrl,
                    transcriptionError, conversationId, recorders, pending, gum,
                    destroyed>>

\* error: (error) => { ... }
OnError(c, message) ==
  /\ isTranscribing' = FALSE
  /\ transcriptionError' = message
  /\ notices' = <<MsgFailed(message)>>
  /\ UNCHANGED <<isRecording, mediaRecorder, audioChunks, audioUrl,
                 transcriptionResult, lastTranscriptionTime, transcriptionAudioUrl,
                 isPlayingTranscriptionAudio, conversationId,
                 recorders, urls, playing, pending, gum, destroyed>>

SubscriberNext(c, response) ==
  IF calls[c].sub = "dashboard"
  THEN OnNext(c, response)
  ELSE UNCHANGED <<dashVars, envVars>>

SubscriberError(c, message) ==
  IF calls[c].sub = "dashboard"
  THEN OnError(c, message)
  ELSE UNCHANGED <<dashVars, envVars>>

(***************************************************************************)
(* Backend answers.                                                        *)
(***************************************************************************)
\* POST /conversation/start answered 2xx with {conversationId: bid}: tap marks
\* the session and records the mapping, switchMap issues the /record request.
StartConversationOk(c, bid) ==
  /\ calls[c].phase = "start"
  /\ startedConversations' = TapStarted(calls[c].sid)
  /\ conversationIdMapping' = TapMapping(calls[c].sid, bid)
  /\ calls' = [calls EXCEPT ![c].phase = "record",
                            ![c].bid = bid,
                            ![c].param = RecordParam(calls[c].sid, bid)]
  /\ hist' = [hist EXCEPT !.ok = @ \cup {calls[c].sid}]
  /\ notices' = <<>>
  /\ UNCHANGED <<outcome, clears, lastCall, dashVars,
                 recorders, urls, playing, pending, gum, destroyed>>

\* POST /conversation/start of a startConversation call made on its own,
\* answered 2xx: the caller receives the response, no tap runs, nothing is
\* marked and no /record request follows
StartConversationAloneOk(c, bid) ==
  /\ calls[c].phase = "startOnly"
  /\ calls' = [calls EXCEPT ![c] = Done]
  /\ outcome' = [kind |-> "next", value |-> bid]
  /\ UNCHANGED <<startedConversations, conversationIdMapping, clears, hist, lastCall>>
  /\ UNCHANGED <<dashVars, envVars>>

\* POST /conversation/start failed (inside ensureConversationStarted or of a
\* startConversation call made on its own): handleError, the error reaches
\* the caller
StartConversationError(c, error) ==
  /\ calls[c].phase \in {"start", "startOnly"}
  /\ startedConversations' = FailStarted(calls[c].sid)
  /\ calls' = [calls EXCEPT ![c] = FailedCall(@)]
  /\ outcome' = [kind |-> "error", value |-> HandleError(error)]
  /\ hist' = [hist EXCEPT !.fail = @ \cup {calls[c].sid}]
  /\ UNCHANGED <<conversationIdMapping, clears, lastCall>>
  /\ SubscriberError(c, HandleError(error))

\* POST /record answered 2xx
RecordOk(c, response) ==
  /\ calls[c].phase = "record"
  /\ calls' = [calls EXCEPT ![c] = Done]
  /\ outcome' = [kind |-> "next", value |-> response.transcription]
  /\ UNCHANGED <<startedConversations, conversationIdMapping, clears, hist, lastCall>>
  /\ SubscriberNext(c, response)

\* POST /record failed: handleError
RecordError(c, error) ==
  /\ calls[c].phase = "record"
  /\ calls' = [calls EXCEPT ![c] = FailedCall(@)]
  /\ outcome' = [kind |-> "error", value |-> HandleError(error)]
  /\ UNCHANGED <<startedConversations, conversationIdMapping, clears, hist, lastCall>>
  /\ SubscriberError(c, HandleError(error))

\* clearStartedConversations()
ClearStartedConversations ==
  /\ startedConversations' = ClearedStarted
  /\ conversationIdMapping' = ClearedMapping
  /\ clears' = clears + 1
  /\ hist' = [hist EXCEPT !.ok = {}, !.clear = Keys]
  /\ UNCHANGED <<calls, outcome, lastCall>>

(***************************************************************************)
(* The correlator driven directly (as the unit tests of transcribeAudioAsMP3 *)
(* and clearStartedConversations drive it); startConversation called on    *)
(* its own is exercised under SpecClient.                                  *)
(***************************************************************************)
SvcTranscribe ==
  \E S \in Sessions :
    /\ Len(calls) < MaxCalls
    /\ TranscribeAudioAsMP3(S, "direct", <<>>)
    /\ UNCHANGED <<dashVars, envVars>>

SvcClear ==
  /\ clears < MaxClears
  /\ ClearStartedConversations
  /\ UNCHANGED <<dashVars, envVars>>

BackendStartOk == \E c \in CallIds, bid \in BackendIds : StartConversationOk(c, bid)
BackendStartAloneOk ==
  \E c \in CallIds, bid \in BackendIds : StartConversationAloneOk(c, bid)
BackendStartError == \E c \in CallIds, e \in HttpErrors : StartConversationError(c, e)
BackendRecordOk == \E c \in CallIds, r \in Responses : RecordOk(c, r)
BackendRecordError == \E c \in CallIds, e \in HttpErrors : RecordError(c, e)

NextService ==
  \/ SvcTranscribe
  \/ SvcClear
  \/ BackendStartOk
  \/ BackendStartError
  \/ BackendRecordOk
  \/ BackendRecordError

SpecService == Init /\ [][NextService]_vars

(***************************************************************************)
(* The service with a clear racing the answers: every call is made before  *)
(* the first clearStartedConversations, so that an answer arriving after a *)
(* clear belongs to a request issued before it.                            *)
(***************************************************************************)
CallBeforeClear ==
  /\ clears = 0
  /\ SvcTranscribe

NextClearRace ==
  \/ CallBeforeClear
  \/ SvcClear
  \/ BackendStartOk
  \/ BackendStartError
  \/ BackendRecordOk
  \/ BackendRecordError

SpecClearRace == Init /\ [][NextClearRace]_vars

(***************************************************************************)
(* The requests of the client driven directly: transcribeAudio,           *)
(* transcribeAudioAsMP3, startConversation and checkServiceHealth, with    *)
(* every kind of failed exchange (clearStartedConversations is exercised   *)
(* under SpecService).                                                     *)
(***************************************************************************)
\* the calls of the client made so far in a run: requests and object URLs
ClientCallsMade == Len(calls) + Len(urls)

\* transcribeAudio(blob, id?)
TranscribeAudioDirect(id, sub, blob) ==
  /\ calls' = Append(calls, NewTranscribeAudioCall(id, sub, blob))
  /\ UNCHANGED <<startedConversations, conversationIdMapping, outcome, clears,
                 hist, lastCall>>

\* checkServiceHealth()
CheckServiceHealth(sub) ==
  /\ calls' = Append(calls, NewHealthCall(sub))
  /\ UNCHANGED <<startedConversations, conversationIdMapping, outcome, clears,
                 hist, lastCall>>

\* GET /record/health answered 2xx
HealthOk(c) ==
  /\ calls[c].phase = "health"
  /\ calls' = [calls EXCEPT ![c] = Done]
  /\ outcome' = [kind |-> "next", value |-> "ok"]
  /\ UNCHANGED <<startedConversations, conversationIdMapping, clears, hist, lastCall>>
  /\ UNCHANGED <<dashVars, envVars>>

\* GET /record/health failed: handleError
HealthError(c, error) ==
  /\ calls[c].phase = "health"
  /\ calls' = [calls EXCEPT ![c] = FailedCall(@)]
  /\ outcome' = [kind |-> "error", value |-> HandleError(error)]
  /\ UNCHANGED <<startedConversations, conversationIdMapping, clears, hist, lastCall>>
  /\ UNCHANGED <<dashVars, envVars>>

ClientTranscribeAsMP3 ==
  \E S \in Sessions :
    /\ ClientCallsMade < MaxClientCalls
    /\ TranscribeAudioAsMP3(S, "direct", <<>>)
    /\ UNCHANGED <<dashVars, envVars>>

ClientTranscribe ==
  \E id \in Sessions \cup {Undefined} :
    /\ ClientCallsMade < MaxClientCalls
    /\ TranscribeAudioDirect(id, "direct", <<>>)
    /\ UNCHANGED <<dashVars, envVars>>

ClientStartConversation ==
  \E S \in Sessions :
    /\ ClientCallsMade < MaxClientCalls
    /\ StartConversation(S, "direct")
    /\ UNCHANGED <<dashVars, envVars>>

\* createAudioUrlFromBuffer(audioBuffer), called on its own
ClientCreateAudioUrlFromBuffer ==
  /\ ClientCallsMade < MaxClientCalls
  /\ urls' = CreateAudioUrlFromBuffer(urls)
  /\ UNCHANGED <<svcVars, dashVars, recorders, playing, pending, gum, notices, destroyed>>

\* createAudioUrlFromBase64(base64Audio), called on its own
ClientCreateAudioUrlFromBase64 ==
  \E r \in Responses :
    /\ ClientCallsMade < MaxClientCalls
    /\ urls' = CreateAudioUrlFromBase64(urls, r.audioBuffer)
    /\ UNCHANGED <<svcVars, dashVars, recorders, playing, pending, gum, notices, destroyed>>

ClientHealth ==
  /\ ClientCallsMade < MaxClientCalls
  /\ CheckServiceHealth("direct")
  /\ UNCHANGED <<dashVars, envVars>>

ClientStartError == \E c \in CallIds, e \in ClientErrors : StartConversationError(c, e)
ClientRecordError == \E c \in CallIds, e \in ClientErrors : RecordError(c, e)
ClientHealthOk == \E c \in CallIds : HealthOk(c)
ClientHealthError == \E c \in CallIds, e \in ClientErrors : HealthError(c, e)

NextClient ==
  \/ ClientTranscribeAsMP3
  \/ ClientTranscribe
  \/ ClientStartConversation
  \/ ClientHealth
  \/ ClientCreateAudioUrlFromBuffer
  \/ ClientCreateAudioUrlFromBase64
  \/ BackendStartOk
  \/ BackendStartAloneOk
  \/ ClientStartError
  \/ BackendRecordOk
  \/ ClientRecordError
  \/ ClientHealthOk
  \/ ClientHealthError

SpecClient == Init /\ [][NextClient]_vars
(***************************************************************************)
(* DashboardComponent: capture.                                            *)
(***************************************************************************)
RecorderIds == 1..Len(recorders)
UrlIds == 1..Len(urls)

\* a stream granted by getUserMedia, with the MediaRecorder built on it
\* (state "none": the constructor threw, there is no recorder)
NewRecorder(state) ==
  [ state |-> state,        \* none | inactive | recording | stopping | stopped
    tracks |-> "live",      \* the stream's tracks: live | stopped
    timer |-> "none",       \* the 500 ms timer of stopRecording: none | pending | fired
    delivered |-> <<>>,     \* history: sizes of the fragments delivered
    signals |-> 0,          \* history: number of stop() calls on the recorder
    cleared |-> FALSE,      \* history: clearRecording took effect after stopRecording
    submitted |-> FALSE ]   \* history: its fragments were submitted after stopRecording

\* if (this.audioUrl) { URL.revokeObjectURL(this.audioUrl); ... }
RevokeIfHeldSkipped(table, ref) == table
RevokeIfHeld(table, ref) ==
  IF ref # NoUrl THEN RevokeObjectURL(table, ref) ELSE table

\* startRecording(): suspended at await getUserMedia(...); at most limit
\* streams are requested in a run
StartRecordingWithin(limit) ==
  /\ ~destroyed
  /\ Len(recorders) + gum < limit
  /\ gum' = gum + 1
  /\ notices' = <<>>
  /\ UNCHANGED <<svcVars, dashVars, recorders, urls, playing, pending, destroyed>>

StartRecording == StartRecordingWithin(MaxRecorders)

\* getUserMedia rejects (permission denied, no device): the catch block
GetUserMediaRejects ==
  /\ gum > 0
  /\ gum' = gum - 1
  /\ notices' = <<MsgMicError>>
  /\ UNCHANGED <<svcVars, dashVars, recorders, urls, playing, pending, destroyed>>

\* getUserMedia resolves but new MediaRecorder(stream, ...) throws: the catch
\* block runs, the granted stream is not touched again
RecorderConstructorThrows ==
  /\ gum > 0
  /\ gum' = gum - 1
  /\ recorders' = Append(recorders, NewRecorder("none"))
  /\ notices' = <<MsgMicError>>
  /\ UNCHANGED <<svcVars, dashVars, urls, playing, pending, destroyed>>

\* getUserMedia resolves, the recorder is built, the previous recording data
\* is discarded, and mediaRecorder.start() throws: the catch block
RecorderStartThrows ==
  /\ gum > 0
  /\ gum' = gum - 1
  /\ recorders' = Append(recorders, NewRecorder("inactive"))
  /\ mediaRecorder' = Len(recorders) + 1
  /\ audioChunks' = <<>>
  /\ urls' = RevokeIfHeld(urls, audioUrl)
  /\ audioUrl' = NoUrl
  /\ notices' = <<MsgMicError>>
  /\ UNCHANGED <<svcVars, isRecording, isTranscribing, transcriptionResult,
                 transcriptionError, lastTranscriptionTime, transcriptionAudioUrl,
                 isPlayingTranscriptionAudio, conversationId, playing, pending, destroyed>>

\* getUserMedia resolves and the rest of startRecording succeeds
RecorderStarts ==
  /\ gum > 0
  /\ gum' = gum - 1
  /\ recorders' = Append(recorders, NewRecorder("recording"))
  /\ mediaRecorder' = Len(recorders) + 1
  /\ audioChunks' = <<>>
  /\ urls' = RevokeIfHeld(urls, audioUrl)
  /\ audioUrl' = NoUrl
  /\ isRecording' = TRUE
  /\ notices' = <<MsgStarted>>
  /\ UNCHANGED <<svcVars, isTranscribing, transcriptionResult,
                 transcriptionError, lastTranscriptionTime, transcriptionAudioUrl,
                 isPlayingTranscriptionAudio, conversationId, playing, pending, destroyed>>

\* if (event.data.size > 0) this.audioChunks.push(event.data)
PushChunkAlways(chunks, r, size) == Append(chunks, [pass |-> r, size |-> size])
PushChunkFirst(chunks, r, size) ==
  IF size > 0 THEN <<[pass |-> r, size |-> size]>> \o chunks ELSE chunks
PushChunk(chunks, r, size) ==
  IF size > 0 THEN Append(chunks, [pass |-> r, size |-> size]) ELSE chunks

\* the number of fragments delivered by recorders 1..n in a run
RECURSIVE TotalDelivered(_)
TotalDelivered(n) ==
  IF n = 0 THEN 0 ELSE Len(recorders[n].delivered) + TotalDelivered(n - 1)

\* mediaRecorder.ondataavailable of recorder r, with a fragment of one of sizes
DataAvailableOf(sizes) ==
  \E r \in RecorderIds, size \in sizes :
    /\ recorders[r].state \in {"recording", "stopping"}
    /\ TotalDelivered(Len(recorders)) < MaxFragments
    /\ audioChunks' = PushChunk(audioChunks, r, size)
    /\ recorders' = [recorders EXCEPT ![r].delivered = Append(@, size)]
    /\ notices' = <<>>
    /\ UNCHANGED <<svcVars, isRecording, mediaRecorder, audioUrl, isTranscribing,
                   transcriptionResult, transcriptionError, lastTranscriptionTime,
                   transcriptionAudioUrl, isPlayingTranscriptionAudio,
                   conversationId, urls, playing, pending, gum, destroyed>>

DataAvailable == DataAvailableOf(FragmentSizes)

\* if (this.mediaRecorder && this.isRecording)
StopGuardRecorderOnly == mediaRecorder # NoRecorder
StopGuard == mediaRecorder # NoRecorder /\ isRecording

\* stopRecording()
StopRecording ==
  /\ ~destroyed
  /\ IF StopGuard
     THEN /\ recorders' = [RecorderStop(recorders, mediaRecorder)
                             EXCEPT ![mediaRecorder].timer = "pending"]
          /\ isRecording' = FALSE
          /\ notices' = <<MsgStopped>>
     ELSE /\ notices' = <<>>
          /\ UNCHANGED <<recorders, isRecording>>
  /\ UNCHANGED <<svcVars, mediaRecorder, audioChunks, audioUrl, isTranscribing,
                 transcriptionResult, transcriptionError, lastTranscriptionTime,
                 transcriptionAudioUrl, isPlayingTranscriptionAudio, conversationId,
                 urls, playing, pending, gum, destroyed>>

\* stream.getTracks().forEach((track) => track.stop())
StopTracksSkipped(rec) == rec
StopTracks(rec) == [rec EXCEPT !.tracks = "stopped"]

\* mediaRecorder.onstop of recorder r: the stop confirmation
RecorderOnStop ==
  \E r \in RecorderIds :
    /\ recorders[r].state = "stopping"
    /\ recorders' = [recorders EXCEPT ![r] = StopTracks([@ EXCEPT !.state = "stopped"])]
    /\ urls' = CreateObjectURL(urls, "recording", audioChunks)
    /\ audioUrl' = Len(urls) + 1
    /\ notices' = <<MsgSaved>>
    /\ UNCHANGED <<svcVars, isRecording, mediaRecorder, audioChunks, isTranscribing,
                   transcriptionResult, transcriptionError, lastTranscriptionTime,
                   transcriptionAudioUrl, isPlayingTranscriptionAudio,
                   conversationId, playing, pending, gum, destroyed>>

(***************************************************************************)
(* DashboardComponent: transcription.                                      *)
(***************************************************************************)
\* if (!this.audioUrl || this.audioChunks.length === 0)
NoAudioUnguarded == FALSE
NoAudioUrlOnly == audioUrl = NoUrl
NoAudio == audioUrl = NoUrl \/ Len(audioChunks) = 0

\* the recording passes whose fragments make up a blob
PassesOf(blob) == {blob[i].pass : i \in 1..Len(blob)}

\* this.transcriptionService.transcribeAudioAsMP3(audioBlob): the call is made
\* without the conversationId argument, the service receives undefined
SessionArgument == Undefined

\* transcribeAudio(): the body shared by the button and the timer
TranscribeAudioBody ==
  IF NoAudio
  THEN /\ notices' = <<MsgNoAudio>>
       /\ UNCHANGED <<svcVars, isTranscribing, transcriptionError, transcriptionResult>>
  ELSE /\ Len(calls) < MaxDashCalls
       /\ isTranscribing' = TRUE
       /\ transcriptionError' = Null
       /\ transcriptionResult' = Null
       /\ notices' = <<MsgSending>>
       /\ TranscribeAudioAsMP3(SessionArgument, "dashboard", audioChunks)

\* history: the passes stopped by stopRecording whose fragments are submitted
MarkSubmitted(table) ==
  IF NoAudio
  THEN table
  ELSE [r \in DOMAIN table |->
          IF r \in PassesOf(audioChunks) /\ table[r].timer # "none"
          THEN [table[r] EXCEPT !.submitted = TRUE]
          ELSE table[r]]

\* transcribeAudio() from the button
TranscribeAudio ==
  /\ ~destroyed
  /\ TranscribeAudioBody
  /\ recorders' = MarkSubmitted(recorders)
  /\ UNCHANGED <<isRecording, mediaRecorder, audioChunks, audioUrl,
                 lastTranscriptionTime, transcriptionAudioUrl,
                 isPlayingTranscriptionAudio, conversationId,
                 urls, playing, pending, gum, destroyed>>

\* setTimeout(() => this.transcribeAudio(), 500) of recorder r's stopRecording
AutoTranscribe ==
  \E r \in RecorderIds :
    /\ recorders[r].timer = "pending"
    /\ TranscribeAudioBody
    /\ recorders' = [MarkSubmitted(recorders) EXCEPT ![r].timer = "fired"]
    /\ UNCHANGED <<isRecording, mediaRecorder, audioChunks, audioUrl,
                   lastTranscriptionTime, transcriptionAudioUrl,
                   isPlayingTranscriptionAudio, conversationId,
                   urls, playing, pending, gum, destroyed>>

\* history: clearRecording (or startNewSession) discarded the recording after
\* these passes were stopped
MarkCleared(table) ==
  [r \in DOMAIN table |->
     IF table[r].timer # "none" THEN [table[r] EXCEPT !.cleared = TRUE] ELSE table[r]]

\* history: the component's requests that are in flight when it clears its
\* transcription data
MarkStale(log) ==
  [c \in DOMAIN log |->
     IF log[c].sub = "dashboard" /\ log[c].phase # "done"
     THEN [log[c] EXCEPT !.stale = TRUE]
     ELSE log[c]]

\* if (this.audioUrl)
ClearGuardFragments == audioUrl # NoUrl \/ Len(audioChunks) > 0
ClearGuard == audioUrl # NoUrl

\* clearRecording()
ClearRecording ==
  /\ ~destroyed
  /\ IF ClearGuard
     THEN /\ urls' = RevokeIfHeld(RevokeObjectURL(urls, audioUrl), transcriptionAudioUrl)
          /\ audioUrl' = NoUrl
          /\ audioChunks' = <<>>
          /\ transcriptionResult' = Null
          /\ transcriptionError' = Null
          /\ lastTranscriptionTime' = 0
          /\ transcriptionAudioUrl' = NoUrl
          /\ isPlayingTranscriptionAudio' = FALSE
          /\ recorders' = MarkCleared(recorders)
          /\ calls' = MarkStale(calls)
          /\ notices' = <<MsgCleared>>
     ELSE /\ notices' = <<>>
          /\ UNCHANGED <<urls, audioUrl, audioChunks, transcriptionResult,
                         transcriptionError, lastTranscriptionTime,
                         transcriptionAudioUrl, isPlayingTranscriptionAudio, recorders,
                         calls>>
  /\ UNCHANGED <<startedConversations, conversationIdMapping, outcome, clears, hist,
                 lastCall, isRecording, mediaRecorder, isTranscribing, conversationId,
                 playing, pending, gum, destroyed>>

\* clearTranscription()
ClearTranscription ==
  /\ ~destroyed
  /\ transcriptionResult' = Null
  /\ transcriptionError' = Null
  /\ lastTranscriptionTime' = 0
  /\ urls' = RevokeIfHeld(urls, transcriptionAudioUrl)
  /\ transcriptionAudioUrl' = NoUrl
  /\ isPlayingTranscriptionAudio' = FALSE
  /\ calls' = MarkStale(calls)
  /\ notices' = <<MsgTranscriptionCleared>>
  /\ UNCHANGED <<startedConversations, conversationIdMapping, outcome, clears, hist,
                 lastCall, isRecording, mediaRecorder, audioChunks, audioUrl,
                 isTranscribing, conversationId, recorders, playing, pending, gum, destroyed>>

\* playTranscriptionAudio() from the button
PlayTranscriptionAudio ==
  /\ ~destroyed
  /\ playing < MaxPlaying
  /\ IF transcriptionAudioUrl # NoUrl /\ PlayStarts(isPlayingTranscriptionAudio)
     THEN /\ isPlayingTranscriptionAudio' = TRUE
          /\ playing' = playing + 1
     ELSE UNCHANGED <<isPlayingTranscriptionAudio, playing>>
  /\ notices' = <<>>
  /\ UNCHANGED <<svcVars, isRecording, mediaRecorder, audioChunks, audioUrl,
                 isTranscribing, transcriptionResult, transcriptionError,
                 lastTranscriptionTime, transcriptionAudioUrl, conversationId,
                 recorders, urls, pending, gum, destroyed>>

\* audio.onended of a playing response-audio element
AudioEnded ==
  /\ playing > 0
  /\ playing' = playing - 1
  /\ isPlayingTranscriptionAudio' = FALSE
  /\ notices' = <<>>
  /\ UNCHANGED <<svcVars, isRecording, mediaRecorder, audioChunks, audioUrl,
                 isTranscribing, transcriptionResult, transcriptionError,
                 lastTranscriptionTime, transcriptionAudioUrl, conversationId,
                 recorders, urls, pending, gum, destroyed>>

\* this.isPlayingTranscriptionAudio after audio.onerror or a rejected play()
FlagAfterFailureKept == isPlayingTranscriptionAudio
FlagAfterFailure == FALSE

\* a response-audio element fails: the first of its two failure handlers
\* (audio.onerror, the rejection handler of audio.play()) runs; the other one
\* may follow later as a callback of its own
AudioFails ==
  /\ playing > 0
  /\ playing' = playing - 1
  /\ isPlayingTranscriptionAudio' = FlagAfterFailure
  /\ notices' = <<MsgPlayError>>
  /\ \/ UNCHANGED pending
     \/ /\ PendingTotal < MaxPending
        /\ pending' = [pending EXCEPT !.failure = @ + 1]
  /\ UNCHANGED <<svcVars, isRecording, mediaRecorder, audioChunks, audioUrl,
                 isTranscribing, transcriptionResult, transcriptionError,
                 lastTranscriptionTime, transcriptionAudioUrl, conversationId,
                 recorders, urls, gum, destroyed>>

\* the other failure handler of an element that has already failed
AudioFailsAgain ==
  /\ pending.failure > 0
  /\ pending' = [pending EXCEPT !.failure = @ - 1]
  /\ isPlayingTranscriptionAudio' = FlagAfterFailure
  /\ notices' = <<MsgPlayError>>
  /\ UNCHANGED <<svcVars, isRecording, mediaRecorder, audioChunks, audioUrl,
                 isTranscribing, transcriptionResult, transcriptionError,
                 lastTranscriptionTime, transcriptionAudioUrl, conversationId,
                 recorders, urls, playing, gum, destroyed>>

\* playRecording(): with an artifact held the recording is played in a new
\* Audio element, whose play() promise settles later
PlayRecording ==
  /\ ~destroyed
  /\ IF audioUrl # NoUrl
     THEN /\ PendingTotal < MaxPending
          /\ pending' = [pending EXCEPT !.recording = @ + 1]
     ELSE UNCHANGED pending
  /\ notices' = <<>>
  /\ UNCHANGED <<svcVars, dashVars, recorders, urls, playing, gum, destroyed>>

\* audio.play() of playRecording resolves: no handler runs
PlayRecordingResolves ==
  /\ pending.recording > 0
  /\ pending' = [pending EXCEPT !.recording = @ - 1]
  /\ notices' = <<>>
  /\ UNCHANGED <<svcVars, dashVars, recorders, urls, playing, gum, destroyed>>

\* audio.play() of playRecording rejects: the catch handler
PlayRecordingRejects ==
  /\ pending.recording > 0
  /\ pending' = [pending EXCEPT !.recording = @ - 1]
  /\ notices' = <<MsgPlayRecordingError>>
  /\ UNCHANGED <<svcVars, dashVars, recorders, urls, playing, gum, destroyed>>

\* copyTranscription(): with a result held navigator.clipboard.writeText is
\* called, whose promise settles later
CopyTranscription ==
  /\ ~destroyed
  /\ IF transcriptionResult \notin {Null, ""}
     THEN /\ PendingTotal < MaxPending
          /\ pending' = [pending EXCEPT !.copy = @ + 1]
     ELSE UNCHANGED pending
  /\ notices' = <<>>
  /\ UNCHANGED <<svcVars, dashVars, recorders, urls, playing, gum, destroyed>>

\* navigator.clipboard.writeText resolves: the then handler
ClipboardResolves ==
  /\ pending.copy > 0
  /\ pending' = [pending EXCEPT !.copy = @ - 1]
  /\ notices' = <<MsgCopied>>
  /\ UNCHANGED <<svcVars, dashVars, recorders, urls, playing, gum, destroyed>>

\* navigator.clipboard.writeText rejects: the catch handler
ClipboardRejects ==
  /\ pending.copy > 0
  /\ pending' = [pending EXCEPT !.copy = @ - 1]
  /\ notices' = <<MsgCopyFailed>>
  /\ UNCHANGED <<svcVars, dashVars, recorders, urls, playing, gum, destroyed>>

(***************************************************************************)
(* DashboardComponent: sessions.                                           *)
(***************************************************************************)
\* the session identifier: conv_<timestamp>_<random suffix>
GenerateConversationId(timestamp, suffix) ==
  "conv_" \o ToString(timestamp) \o "_" \o suffix

\* the timestamp a session identifier was generated at
Timestamp(id) == CASE id = "conv_1_a" -> 1 [] id = "conv_2_b" -> 2 [] OTHER -> 0

\* /^conv_\d+_[a-z0-9]+$/ over the identifiers of the model
MatchesFormat(id) ==
  \E t \in 1..2, x \in {"a", "b"} : id = GenerateConversationId(t, x)

\* the identifiers a later generateConversationId can produce
FreshIdsAny(id) == Sessions
FreshIds(id) == {s \in Sessions : Timestamp(s) > Timestamp(id)}

\* startNewSession()
StartNewSession ==
  /\ ~destroyed
  /\ \E s \in FreshIds(conversationId) : conversationId' = s
  /\ urls' = RevokeIfHeld(RevokeIfHeld(urls, audioUrl), transcriptionAudioUrl)
  /\ audioUrl' = NoUrl
  /\ audioChunks' = <<>>
  /\ transcriptionResult' = Null
  /\ transcriptionError' = Null
  /\ lastTranscriptionTime' = 0
  /\ transcriptionAudioUrl' = NoUrl
  /\ isPlayingTranscriptionAudio' = FALSE
  /\ ClearStartedConversations
  /\ recorders' = MarkCleared(recorders)
  /\ notices' = <<MsgNewSession>>
  /\ UNCHANGED <<isRecording, mediaRecorder, isTranscribing, playing, pending, gum, destroyed>>

(***************************************************************************)
(* DashboardComponent: teardown.                                           *)
(***************************************************************************)
\* whether ngOnDestroy signals the recorder: this.mediaRecorder && this.isRecording
DestroyStops == mediaRecorder # NoRecorder /\ isRecording

\* the body of ngOnDestroy()
NgOnDestroyBody ==
  /\ destroyed' = TRUE
  /\ urls' = RevokeIfHeld(RevokeIfHeld(urls, audioUrl), transcriptionAudioUrl)
  /\ recorders' = IF DestroyStops
                  THEN RecorderStop(recorders, mediaRecorder)
                  ELSE recorders
  /\ notices' = <<>>
  /\ UNCHANGED <<svcVars, dashVars, playing, pending, gum>>

\* ngOnDestroy(), called by the framework when the component is destroyed
NgOnDestroy ==
  /\ ~destroyed
  /\ NgOnDestroyBody

\* ngOnDestroy() called again on the destroyed component; a run repeats it
\* until a reference was revoked or a recorder signalled MaxRepeats times
NgOnDestroyAgain ==
  /\ destroyed
  /\ \A u \in UrlIds : urls[u].revoked < MaxRepeats
  /\ \A r \in RecorderIds : recorders[r].signals < MaxRepeats
  /\ NgOnDestroyBody

(***************************************************************************)
(* The component with its service, browser and backend.                    *)
(***************************************************************************)
Next ==
  \/ StartRecording
  \/ GetUserMediaRejects
  \/ RecorderConstructorThrows
  \/ RecorderStartThrows
  \/ RecorderStarts
  \/ DataAvailable
  \/ StopRecording
  \/ RecorderOnStop
  \/ TranscribeAudio
  \/ AutoTranscribe
  \/ ClearRecording
  \/ ClearTranscription
  \/ PlayTranscriptionAudio
  \/ AudioEnded
  \/ AudioFails
  \/ AudioFailsAgain
  \/ PlayRecording
  \/ PlayRecordingResolves
  \/ PlayRecordingRejects
  \/ CopyTranscription
  \/ ClipboardResolves
  \/ ClipboardRejects
  \/ StartNewSession
  \/ NgOnDestroy
  \/ BackendStartOk
  \/ BackendStartError
  \/ BackendRecordOk
  \/ BackendRecordError

Spec == Init /\ [][Next]_vars

(***************************************************************************)
(* Claims about the conversation correlator (checked under SpecService).   *)
(***************************************************************************)
\* the step in which call c's start-conversation request is answered with a
\* failure
StartFails(c) == calls[c].phase = "start" /\ calls'[c].phase = "done"
\* the step in which call c's start-conversation request is answered 2xx
StartSucceeds(c) == calls[c].phase = "start" /\ calls'[c].phase = "record"
NormalizedMessages == {HandleError(e) : e \in HttpErrors}

\* C1: once a start-conversation exchange for S has succeeded, every later
\* call for S made before clearStartedConversations issues no start request
\* and sends its /record request with the backend identifier recorded for S.
C1_ReuseRecordedIdentifier ==
  lastCall.priorOk =>
    /\ ~lastCall.startIssued
    /\ lastCall.param = EncodeURIComponent(lastCall.mapped)

\* C2 (as stated): for every session identifier at most one start-conversation
\* request is in flight, also when two calls race.
C2_AtMostOneStartInFlight ==
  \A S \in Sessions : Cardinality(InFlightStarts(S)) <= 1

\* C2 (amended): a start-conversation request for S is put in flight by
\* transcribeAudioAsMP3 only in a call made while S is not in the started set,
\* and each call puts at most one in flight; so more than one is in flight
\* only when calls for the same unstarted identifier overlap.
C2_StartIssuedOnlyWhenUnstarted ==
  [][\A S \in Sessions :
       Cardinality(InFlightStarts(S)') > Cardinality(InFlightStarts(S)) =>
         /\ S \notin startedConversations
         /\ Cardinality(InFlightStarts(S)') = Cardinality(InFlightStarts(S)) + 1]_vars

\* two overlapping transcribeAudioAsMP3 calls for the same unstarted
\* identifier: both start requests are in flight
C2_Witness ==
  \E S \in Sessions :
    Cardinality({c \in InFlightStarts(S) : calls[c].phase = "start"}) = 2

\* C3 (as stated): when the start-conversation request for S fails, the caller
\* receives the normalized error, the started set and the mapping are
\* unchanged, no /record request is issued for that call, and the next call
\* for S issues a start-conversation request again.
C3_StartFailureThenRestart ==
  /\ [][\A c \in CallIds :
          StartFails(c) =>
            /\ outcome' = [kind |-> "error", value |-> outcome'.value]
            /\ outcome'.value \in NormalizedMessages
            /\ startedConversations' = startedConversations
            /\ conversationIdMapping' = conversationIdMapping]_vars
  /\ [](lastCall.afterFail => lastCall.startIssued)

\* C3 (amended): as C3, the next call for S issuing a start-conversation
\* request again unless the start exchange of another, overlapping call for S
\* has succeeded in the meantime (S is then started by that call).
C3_StartFailureLeavesUnstarted ==
  /\ [][\A c \in CallIds :
          StartFails(c) =>
            /\ outcome' = [kind |-> "error", value |-> outcome'.value]
            /\ outcome'.value \in NormalizedMessages
            /\ startedConversations' = startedConversations
            /\ conversationIdMapping' = conversationIdMapping]_vars
  /\ []((lastCall.afterFail /\ ~lastCall.priorOk) => lastCall.startIssued)

\* a start failed for S, and the next call for S has its start request in flight
C3_Witness ==
  /\ lastCall.afterFail /\ lastCall.startIssued
  /\ outcome.kind = "error"
  /\ calls[Len(calls)].phase = "start"

\* C4: a call for an unstarted S issues /record only after its start request
\* has succeeded, with the backend-returned identifier as conversationId, S
\* being marked started with that mapping; after a failed start no /record
\* request is issued (the call ends with the error).
C4_RecordAfterStart ==
  /\ [](\A c \in CallIds :
          calls[c].startIssued =>
            /\ calls[c].phase = "start" =>
                 calls[c].param = Undefined /\ calls[c].bid = Undefined
            /\ calls[c].phase = "record" =>
                 /\ calls[c].bid \in BackendIds
                 /\ calls[c].param = EncodeURIComponent(calls[c].bid))
  /\ [][\A c \in CallIds :
          /\ StartSucceeds(c) =>
               /\ calls[c].sid \in startedConversations'
               /\ conversationIdMapping'[calls[c].sid] = calls'[c].bid
          /\ StartFails(c) => outcome'.kind = "error"
          /\ calls[c].phase = "start" =>
               (StartSucceeds(c) \/ StartFails(c) \/ calls'[c] = calls[c])]_vars

\* the /record request of a call that had to start S carries the backend's
\* identifier, which differs from S and needs escaping
C4_Witness ==
  \E c \in CallIds :
    /\ calls[c].startIssued
    /\ calls[c].phase = "record"
    /\ calls[c].bid = "srv 1"
    /\ calls[c].param = "srv%201"

\* C5: right after clearStartedConversations the started set and the mapping
\* are empty, and the next call for any identifier (also one started before
\* the clear) issues a start-conversation request before its /record request.
C5_ClearRestartsHandshake ==
  /\ [][clears' # clears =>
          /\ startedConversations' = {}
          /\ \A S \in Keys : conversationIdMapping'[S] = Undefined]_vars
  /\ [](lastCall.afterClear =>
          lastCall.startIssued /\ lastCall.param = Undefined)

(***************************************************************************)
(* The capture operations on their own: several recording passes, no       *)
(* transcription.                                                          *)
(***************************************************************************)
CaptureStartRecording == StartRecordingWithin(MaxPasses)
CaptureDataAvailable == DataAvailableOf(CaptureFragmentSizes)

NextCapture ==
  \/ CaptureStartRecording
  \/ GetUserMediaRejects
  \/ RecorderConstructorThrows
  \/ RecorderStartThrows
  \/ RecorderStarts
  \/ CaptureDataAvailable
  \/ StopRecording
  \/ RecorderOnStop
  \/ ClearRecording
  \/ NgOnDestroy

SpecCapture == Init /\ [][NextCapture]_vars

(***************************************************************************)
(* Several recording passes with transcription from the button and from    *)
(* the timer of stopRecording (requests are issued, answers not modelled). *)
(***************************************************************************)
NextOverlap ==
  \/ CaptureStartRecording
  \/ RecorderStarts
  \/ CaptureDataAvailable
  \/ StopRecording
  \/ RecorderOnStop
  \/ TranscribeAudio
  \/ AutoTranscribe

SpecOverlap == Init /\ [][NextOverlap]_vars

(***************************************************************************)
(* The capture operations with a teardown that may be repeated.            *)
(***************************************************************************)
NextTeardown ==
  \/ CaptureStartRecording
  \/ GetUserMediaRejects
  \/ RecorderConstructorThrows
  \/ RecorderStartThrows
  \/ RecorderStarts
  \/ CaptureDataAvailable
  \/ StopRecording
  \/ RecorderOnStop
  \/ ClearRecording
  \/ NgOnDestroy
  \/ NgOnDestroyAgain

SpecTeardown == Init /\ [][NextTeardown]_vars

(***************************************************************************)
(* Claims about the dashboard component, checked under Spec.              *)
(***************************************************************************)
\* nothing is pending: no getUserMedia, no stop confirmation, no timer, no request
Quiescent ==
  /\ gum = 0
  /\ \A r \in RecorderIds : recorders[r].state # "stopping" /\ recorders[r].timer # "pending"
  /\ \A c \in CallIds : calls[c].phase = "done"

\* the pass of recorder r delivered at least one non-empty fragment
DeliveredNonEmpty(r) ==
  \E i \in 1..Len(recorders[r].delivered) : recorders[r].delivered[i] > 0

\* C6: once the component is destroyed and every pending callback has fired,
\* every created object URL is revoked, every acquired microphone track is
\* stopped and no recorder is recording.
C6_ResourcesReleasedAfterDestroy ==
  (destroyed /\ Quiescent) =>
     /\ \A u \in UrlIds : urls[u].revoked > 0
     /\ \A r \in RecorderIds : recorders[r].tracks = "stopped"
     /\ \A r \in RecorderIds : recorders[r].state # "recording"

\* C7: transcriptionResult and transcriptionError are never both non-null,
\* and isTranscribing is true only while both are null.
C7_ResultErrorExclusive ==
  /\ ~(transcriptionResult # Null /\ transcriptionError # Null)
  /\ isTranscribing => (transcriptionResult = Null /\ transcriptionError = Null)

\* C8: when a pass's stop is confirmed, audioUrl is non-null exactly if the
\* pass delivered a non-empty fragment; and whenever audioUrl is non-null,
\* audioChunks holds at least one (non-empty) fragment.
C8_ArtifactIffNonEmptyFragment ==
  /\ [][\A r \in RecorderIds :
          (recorders[r].state = "stopping" /\ recorders'[r].state = "stopped")
            => (audioUrl' # NoUrl <=> DeliveredNonEmpty(r))]_vars
  /\ [](audioUrl # NoUrl => Len(audioChunks) > 0)

\* C9: stopRecording itself submits nothing, and once both the timer of a
\* stopRecording has fired and the stop is confirmed, a pass that delivered a
\* non-empty fragment has been submitted for transcription, unless a clear or
\* the destruction of the component intervened.
C9_StopThenTranscribe ==
  /\ [][(isRecording /\ ~isRecording') => calls' = calls]_vars
  /\ [](\A r \in RecorderIds :
          ( /\ recorders[r].timer = "fired"
            /\ recorders[r].state = "stopped"
            /\ DeliveredNonEmpty(r)
            /\ ~recorders[r].cleared
            /\ ~destroyed )
          => recorders[r].submitted)

\* the step in which the timer of recorder r's stopRecording fires
TimerFires(r) == recorders[r].timer = "pending" /\ recorders'[r].timer = "fired"

\* C10 (as stated): when the timer fires after the recording was cleared, no
\* request is issued, the no-audio notice is emitted, and afterwards
\* transcriptionError is null and isTranscribing is false.
C10_ClearedTimerNoAudio ==
  [][\A r \in RecorderIds :
       (TimerFires(r) /\ recorders[r].cleared)
         => /\ calls' = calls
            /\ notices' = <<MsgNoAudio>>
            /\ transcriptionError' = Null
            /\ isTranscribing' = FALSE]_vars

\* C10 (amended): when the timer fires after the recording was cleared and no
\* artifact has been finalized since, no request is issued, the no-audio
\* notice is emitted, and transcriptionError and isTranscribing are unchanged.
C10_ClearedTimerChangesNothing ==
  [][\A r \in RecorderIds :
       ( /\ TimerFires(r)
         /\ recorders[r].cleared
         /\ (audioUrl = NoUrl \/ Len(audioChunks) = 0) )
         => /\ calls' = calls
            /\ notices' = <<MsgNoAudio>>
            /\ UNCHANGED <<transcriptionError, isTranscribing, transcriptionResult>>]_vars

\* C10 witness: a timer has fired after a clear and produced the no-audio notice
C10_Witness ==
  \E r \in RecorderIds :
    /\ recorders[r].timer = "fired"
    /\ recorders[r].cleared
    /\ audioUrl = NoUrl
    /\ notices = <<MsgNoAudio>>

\* C11: transcribeAudio (button or timer) called while audioUrl is null or
\* audioChunks is empty issues no request, leaves isTranscribing,
\* transcriptionResult, transcriptionError and lastTranscriptionTime
\* unchanged and emits the no-audio notice; clearRecording always leaves
\* audioUrl null, hence the component in such a state.
C11_NoArtifactNoRequest ==
  /\ [][((TranscribeAudio \/ AutoTranscribe)
           /\ (audioUrl = NoUrl \/ Len(audioChunks) = 0))
         => /\ calls' = calls
            /\ UNCHANGED <<isTranscribing, transcriptionResult,
                           transcriptionError, lastTranscriptionTime>>
            /\ notices' = <<MsgNoAudio>>]_vars
  /\ [][ClearRecording => audioUrl' = NoUrl]_vars

\* C11 witness: after a clear, the button's transcribeAudio produced the
\* no-audio notice while the timer of the cleared pass is still pending
C11_Witness ==
  /\ notices = <<MsgNoAudio>>
  /\ audioUrl = NoUrl
  /\ \E r \in RecorderIds : recorders[r].cleared /\ recorders[r].timer = "pending"

\* C12: every submission made by transcribeAudio (button or timer) hands the
\* component's current session identifier to transcribeAudioAsMP3, which
\* resolves it through the correlator: a start request is issued exactly if
\* that identifier is not started, and otherwise the /record request carries
\* the identifier resolved for it.
C12_SubmissionPassesSession ==
  [][Len(calls') > Len(calls) =>
       LET c == calls'[Len(calls')]
       IN /\ c.sub = "dashboard"
          /\ c.sid = conversationId
          /\ c.startIssued = ~(conversationId \in startedConversations)
          /\ ~c.startIssued =>
               c.param = EncodeURIComponent(BackendConversationId(conversationId))]_vars

\* how often a step revokes object URL u
Revocations(u) == urls'[u].revoked - urls[u].revoked

\* C13: a startNewSession step (the only step that changes the session
\* identifier) ends with audioUrl null, audioChunks empty, the transcription
\* result, error and time null, transcriptionAudioUrl null and
\* isPlayingTranscriptionAudio false; it revokes exactly the references held
\* before it (none when none was held), creates none, and empties the
\* correlator's started set and mapping.
C13_NewSessionResets ==
  [][conversationId' # conversationId =>
       /\ audioUrl' = NoUrl
       /\ audioChunks' = <<>>
       /\ transcriptionResult' = Null
       /\ transcriptionError' = Null
       /\ lastTranscriptionTime' = 0
       /\ transcriptionAudioUrl' = NoUrl
       /\ isPlayingTranscriptionAudio' = FALSE
       /\ Len(urls') = Len(urls)
       /\ \A u \in UrlIds :
            Revocations(u) = IF u \in {audioUrl, transcriptionAudioUrl} THEN 1 ELSE 0
       /\ startedConversations' = {}
       /\ \A S \in Keys : conversationIdMapping'[S] = Undefined]_vars

\* C13 witness: a new session was started while a transcription was in flight,
\* the old session was started, and both a recording URL and a response URL
\* were held and are now revoked
C13_Witness ==
  /\ notices = <<MsgNewSession>>
  /\ isTranscribing
  /\ "conv_1_a" \in hist.clear
  /\ \E u \in UrlIds : urls[u].kind = "recording" /\ urls[u].revoked = 1
  /\ \E u \in UrlIds : urls[u].kind = "response" /\ urls[u].revoked = 1

\* C14: a startNewSession step changes the session identifier to a different
\* one of the form conv_<timestamp>_<suffix>; no other step changes it, and the
\* identifier always has that form.
C14_FreshSessionIdentifier ==
  /\ [][notices' = <<MsgNewSession>> =>
          (conversationId' # conversationId /\ MatchesFormat(conversationId'))]_vars
  /\ [][conversationId' # conversationId => notices' = <<MsgNewSession>>]_vars
  /\ [](MatchesFormat(conversationId))

\* C14 witness: a new session was started before any submission was made
C14_Witness ==
  /\ notices = <<MsgNewSession>>
  /\ conversationId = "conv_2_b"
  /\ calls = <<>>

\* the step in which a startRecording call ends in its catch block
StartRecordingFails == gum' = gum - 1 /\ notices' = <<MsgMicError>>

\* C15: when startRecording fails (getUserMedia rejected, the recorder
\* constructor threw, or start() threw), isRecording is false afterwards,
\* mediaRecorder, audioChunks and audioUrl are as before the call, no object
\* URL is revoked, and the microphone error notice is the outcome.
C15_FailedStartChangesNothing ==
  [][StartRecordingFails =>
       /\ isRecording' = FALSE
       /\ UNCHANGED <<mediaRecorder, audioChunks, audioUrl>>
       /\ \A u \in UrlIds : Revocations(u) = 0]_vars

\* the step in which a startRecording call completes successfully
StartRecordingSucceeds == gum' = gum - 1 /\ notices' = <<MsgStarted>>

\* C16: when startRecording succeeds, isRecording is true, audioChunks is
\* empty and audioUrl is null afterwards, and an artifact reference held
\* before has been revoked exactly once.
C16_StartDiscardsPriorArtifact ==
  [][StartRecordingSucceeds =>
       /\ isRecording'
       /\ audioChunks' = <<>>
       /\ audioUrl' = NoUrl
       /\ audioUrl # NoUrl => urls'[audioUrl].revoked = 1]_vars

\* the step in which recorder r, stopped by stopRecording, confirms the stop
StopConfirmed(r) ==
  /\ recorders[r].timer # "none"
  /\ recorders[r].state = "stopping"
  /\ recorders'[r].state = "stopped"

\* C17: when a pass ended by stopRecording is confirmed stopped,
\* isRecording is false, the tracks of the pass's stream are stopped and, if
\* the pass delivered a non-empty fragment, audioUrl is non-null.
C17_StopConfirmedFinalizes ==
  [][\A r \in RecorderIds :
       StopConfirmed(r) =>
         /\ ~isRecording'
         /\ recorders'[r].tracks = "stopped"
         /\ DeliveredNonEmpty(r) => audioUrl' # NoUrl]_vars

\* C18: stopRecording called while isRecording is false changes no field of
\* the component or the service, signals no recorder, schedules no timer,
\* touches no object URL and does not emit the 'stopped' notice.
C18_StopWhenIdleIsNoOp ==
  [][(StopRecording /\ ~isRecording) =>
       /\ UNCHANGED <<svcVars, dashVars, recorders, urls, playing, pending, gum, destroyed>>
       /\ notices' # <<MsgStopped>>]_vars

\* C18 witness: stopRecording was called after a pass had been stopped,
\* confirmed and its timer had fired; nothing was signalled again
C18_Witness ==
  /\ ~isRecording
  /\ notices = <<>>
  /\ mediaRecorder # NoRecorder
  /\ recorders[mediaRecorder].state = "stopped"
  /\ recorders[mediaRecorder].timer = "fired"

\* a step of ngOnDestroy, first or repeated
TeardownStep == NgOnDestroy \/ NgOnDestroyAgain

\* C19: ngOnDestroy with no reference held and no active recording revokes
\* nothing and signals no recorder; and no ngOnDestroy call revokes a
\* reference that was already revoked or signals a recorder that was already
\* signalled to stop, so calling it twice in a row releases each at most once.
C19_TeardownIdempotent ==
  /\ [][(TeardownStep /\ audioUrl = NoUrl /\ transcriptionAudioUrl = NoUrl
            /\ ~isRecording)
          => (urls' = urls /\ recorders' = recorders)]_vars
  /\ [][TeardownStep =>
          /\ \A u \in UrlIds : Revocations(u) > 0 => urls[u].revoked = 0
          /\ \A r \in RecorderIds :
               recorders'[r].signals > recorders[r].signals
                 => recorders[r].signals = 0]_vars

\* C20: clearRecording called with audioUrl held revokes that reference, sets
\* audioUrl to null, empties audioChunks, sets transcriptionResult,
\* transcriptionError and lastTranscriptionTime to null, and revokes and nulls
\* a held transcriptionAudioUrl.
C20_ClearRecordingReleases ==
  [][(ClearRecording /\ audioUrl # NoUrl) =>
       /\ Revocations(audioUrl) = 1
       /\ audioUrl' = NoUrl
       /\ audioChunks' = <<>>
       /\ transcriptionResult' = Null
       /\ transcriptionError' = Null
       /\ lastTranscriptionTime' = 0
       /\ transcriptionAudioUrl # NoUrl => Revocations(transcriptionAudioUrl) = 1
       /\ transcriptionAudioUrl' = NoUrl]_vars

\* C20 witness: a recording with a transcription result and response audio
\* has just been cleared
C20_Witness ==
  /\ notices = <<MsgCleared>>
  /\ audioUrl = NoUrl
  /\ transcriptionAudioUrl = NoUrl
  /\ \E u \in UrlIds : urls[u].kind = "recording" /\ urls[u].revoked = 1
  /\ \E u \in UrlIds : urls[u].kind = "response" /\ urls[u].revoked = 1

\* C21: clearRecording called with audioUrl null revokes nothing, opens no
\* notification and leaves every state variable unchanged.
C21_ClearWithoutArtifactIsNoOp ==
  [][(ClearRecording /\ audioUrl = NoUrl) =>
       /\ urls' = urls
       /\ notices' = <<>>
       /\ UNCHANGED <<svcVars, dashVars, recorders, playing, pending, gum, destroyed>>]_vars

\* C21 witness: a recording is in progress with fragments held and audioUrl
\* null, the state clearRecording is called in and returns to
C21_Witness ==
  /\ notices = <<>>
  /\ ~destroyed
  /\ audioUrl = NoUrl
  /\ isRecording
  /\ Len(audioChunks) > 0

\* C22: in every reachable state at most one response-audio playback is
\* active.
C22_AtMostOnePlayback == playing <= 1

\* the step in which a successful response carrying a synthesized-audio
\* payload is delivered to the component
AudioResponseDelivered ==
  /\ notices' = <<MsgPlaying, MsgCompleted>>
  /\ transcriptionAudioUrl' = Len(urls) + 1

\* C23: every successful response that carries a synthesized-audio payload
\* starts a playback of that payload, also while the audio of an earlier
\* response is still playing.
C23_ResponseAudioPlayed ==
  [][AudioResponseDelivered => playing' = playing + 1]_vars

(***************************************************************************)
(* Claims about the client driven directly (checked under SpecClient).     *)
(***************************************************************************)
\* the step in which a request of call c is answered with the failure e
ExchangeFails(c, e) ==
  \/ StartConversationError(c, e)
  \/ RecordError(c, e)
  \/ HealthError(c, e)

\* the normalization table of the error taxonomy: status -> message
StatusMessage(status, detail) ==
  CASE status = 0 ->
         "Unable to connect to transcription service. Please check if the server is running."
    [] status = 400 -> "Invalid audio format. Please try recording again."
    [] status = 413 -> "Audio file is too large. Please record a shorter audio clip."
    [] status = 422 ->
         "Audio format not supported. Please try a different recording format."
    [] status = 429 -> "Too many requests. Please wait a moment and try again."
    [] status = 500 ->
         "Server error occurred during transcription. Please try again later."
    [] status = 503 ->
         "Transcription service is temporarily unavailable. Please try again later."
    [] OTHER ->
         "Server Error (" \o ToString(status) \o "): "
           \o (IF detail = "" THEN "Unknown error" ELSE detail)

\* C24: for every failed exchange of start-conversation, record or health that
\* is not a client-side ErrorEvent, the caller receives the message the table
\* gives for the status code (the detail matters only outside the table).
\* (Every failed exchange ends its call; the steps are looked up by that.)
C24_MessageByStatus ==
  [][\A c \in CallIds :
       calls' = [calls EXCEPT ![c] = FailedCall(@)] =>
         \A e \in ClientErrors :
           (~e.event /\ ExchangeFails(c, e)) =>
             outcome' = [kind |-> "error",
                         value |-> StatusMessage(e.status, e.detail)]]_vars

\* C24 witness: a status outside the table was normalized with its detail
C24_Witness ==
  outcome = [kind |-> "error", value |-> "Server Error (418): Custom error message"]

MsgUnreachable ==
  "Unable to connect to transcription service. Please check if the server is running."

\* a transport failure: reported with status 0 or as a client-side ErrorEvent
TransportFailure(e) == e.event \/ e.status = 0

\* C25: every transport failure, whether reported with status 0 or as a
\* client-side error event, is normalized to the service-unreachable message.
C25_TransportFailureUnreachable ==
  [][\A c \in CallIds, e \in ClientErrors :
       (TransportFailure(e) /\ ExchangeFails(c, e)) =>
         outcome' = [kind |-> "error", value |-> MsgUnreachable]]_vars

\* call c has a request awaiting its answer
InFlight(call) == call.phase \in {"start", "startOnly", "record", "health"}

\* the step in which a request of call c is answered 2xx
AnsweredOk(c) ==
  \/ \E bid \in BackendIds : StartConversationOk(c, bid)
  \/ \E bid \in BackendIds : StartConversationAloneOk(c, bid)
  \/ \E r \in Responses : RecordOk(c, r)
  \/ HealthOk(c)

\* C26: no automatic retry. A call issues its requests one at a time in the
\* order start-conversation, /record (or the single health request, or the
\* single start-conversation request of startConversation); an
\* answered request is never issued again, whatever the answer: after a
\* failure or a final answer the call has no request in flight, after a
\* successful start it has only its /record request.
C26_NoRetry ==
  [][\A c \in CallIds :
       /\ calls'[c].phase # calls[c].phase =>
            \/ calls[c].phase = "start" /\ calls'[c].phase \in {"record", "done"}
            \/ calls[c].phase \in {"startOnly", "record", "health"}
                 /\ calls'[c].phase = "done"
       /\ calls'[c].phase = calls[c].phase => ~AnsweredOk(c)
       /\ InFlight(calls'[c]) =>
            \A e \in ClientErrors : ~ExchangeFails(c, e)]_vars

\* C26 witness: every call of the run has ended, the last one with a failure,
\* and no request is in flight
C26_Witness ==
  /\ outcome.kind = "error"
  /\ Len(calls) = MaxClientCalls
  /\ \A c \in CallIds : ~InFlight(calls[c])

\* C27: a submission given a session identifier, through transcribeAudio or
\* transcribeAudioAsMP3, is resolved through the correlator first: for a
\* started session its /record request carries the identifier the correlator
\* resolves, for an unstarted one the start-conversation request is issued
\* before any /record request.
C27_SubmissionResolvesSession ==
  [][Len(calls') = Len(calls) + 1 =>
       LET new == calls'[Len(calls')]
       IN (new.sid \in Sessions /\ new.phase # "startOnly") =>
            IF HasStarted(new.sid)
            THEN /\ new.phase = "record"
                 /\ new.param = EncodeURIComponent(BackendConversationId(new.sid))
            ELSE new.phase = "start"]_vars

(***************************************************************************)
(* Claims about fragment accumulation (checked under SpecCapture).         *)
(***************************************************************************)
IsNonEmpty(size) == size > 0

\* the non-empty fragments among those recorder r has delivered, in delivery
\* order
NonEmptyDelivered(r) ==
  LET kept == SelectSeq(recorders[r].delivered, IsNonEmpty)
  IN [i \in 1..Len(kept) |-> [pass |-> r, size |-> kept[i]]]

\* the step in which recorder r delivers a fragment
Delivers(r) ==
  /\ r \in DOMAIN recorders'
  /\ Len(recorders'[r].delivered) = Len(recorders[r].delivered) + 1

\* the fragment delivered in that step
Delivered(r) == recorders'[r].delivered[Len(recorders'[r].delivered)]

\* C28: a delivered non-empty fragment is appended to audioChunks, a
\* zero-length fragment changes no state; so during one recording pass
\* audioChunks is exactly the non-empty fragments delivered, in delivery order.
C28_ChunksAreNonEmptyFragments ==
  /\ [][\A r \in RecorderIds :
          Delivers(r) =>
            /\ IsNonEmpty(Delivered(r)) =>
                 audioChunks' = Append(audioChunks, [pass |-> r, size |-> Delivered(r)])
            /\ ~IsNonEmpty(Delivered(r)) =>
                 UNCHANGED <<svcVars, dashVars, urls, playing, pending, gum, destroyed>>]_vars
  /\ [](\A r \in RecorderIds :
          (Len(recorders) = 1 /\ recorders[r].state \in {"recording", "stopping"})
            => audioChunks = NonEmptyDelivered(r))

\* C28 witness: a pass has delivered an empty fragment and then a non-empty
\* one, and holds only the latter
C28_Witness ==
  /\ Len(recorders) = 1
  /\ recorders[1].state = "recording"
  /\ recorders[1].delivered = <<0, 20>>
  /\ audioChunks = <<[pass |-> 1, size |-> 20]>>

(***************************************************************************)
(* Claims about response-audio playback failures (checked under Spec).     *)
(***************************************************************************)
\* the step in which a failure handler of a response-audio element runs:
\* audio.onerror or the rejection handler of audio.play(), each a callback
\* of its own
PlaybackFails == notices' = <<MsgPlayError>>

\* the step in which playTranscriptionAudio() is called from the button
PlayCalled == PlayTranscriptionAudio

\* C29: after a response-audio playback fails isPlayingTranscriptionAudio is
\* false and the failure is reported by notification, nothing else of the
\* component changes; and a playTranscriptionAudio call made with a reference
\* held and the flag false starts a playback, whether or not another element
\* is still playing or a failure handler is still to come.
C29_PlaybackFailureRecovers ==
  /\ [][PlaybackFails =>
          /\ ~isPlayingTranscriptionAudio'
          /\ UNCHANGED <<svcVars, isRecording, mediaRecorder, audioChunks, audioUrl,
                         isTranscribing, transcriptionResult, transcriptionError,
                         lastTranscriptionTime, transcriptionAudioUrl, conversationId,
                         recorders, urls, gum, destroyed>>]_vars
  /\ [][(PlayCalled /\ transcriptionAudioUrl # NoUrl /\ ~isPlayingTranscriptionAudio) =>
          /\ isPlayingTranscriptionAudio'
          /\ playing' = playing + 1]_vars

\* C29 witness: the first failure handler of an element ran, the button
\* started a new playback with the reference still held, and then the second
\* handler of the failed element ran: the flag is false again while the new
\* element plays, and the next playTranscriptionAudio call starts another
C29_Witness ==
  /\ notices = <<MsgPlayError>>
  /\ pending.failure = 0
  /\ ~isPlayingTranscriptionAudio
  /\ playing = 1
  /\ ~destroyed
  /\ transcriptionAudioUrl # NoUrl
  /\ urls[transcriptionAudioUrl].revoked = 0
  /\ Len(calls) = 1

(***************************************************************************)
(* Claims about racing calls of the correlator (checked under SpecService).*)
(***************************************************************************)
\* the calls for session S whose /record request is in flight
InFlightRecords(S) == {c \in CallIds : calls[c].sid = S /\ calls[c].phase = "record"}

\* C30: before the correlator is cleared, all /record requests issued for the
\* same session identifier carry the same conversationId parameter, also when
\* two calls race and the backend answers their start requests differently or
\* with an empty identifier.
C30_SameParameterPerSession ==
  clears = 0 =>
    \A S \in Sessions :
      \A c1, c2 \in InFlightRecords(S) : calls[c1].param = calls[c2].param

(***************************************************************************)
(* Claims about clears racing with start requests (under SpecClearRace).   *)
(***************************************************************************)
\* call c was made before the latest clearStartedConversations (under
\* SpecClearRace every call is made before the first clear)
MadeBeforeClear(c) == clears > 0

\* C31: after clearStartedConversations a session identifier enters the
\* started set or the mapping only through a start-conversation request issued
\* after that clear: the answer to a start request issued before the clear
\* registers nothing.
C31_ClearedStartStaysCleared ==
  [][\A c \in CallIds :
       (StartSucceeds(c) /\ MadeBeforeClear(c)) =>
         /\ startedConversations' = startedConversations
         /\ conversationIdMapping' = conversationIdMapping]_vars

(***************************************************************************)
(* Claims about overlapping transcription requests (checked under Spec).   *)
(***************************************************************************)
\* the component's requests that await their answer
AwaitedRequests ==
  {c \in CallIds : calls[c].sub = "dashboard" /\ calls[c].phase # "done"}

\* the step in which the component's request c gets its final answer
RequestAnswered(c) == c \in AwaitedRequests /\ calls'[c].phase = "done"

\* C32: the answer to a transcription request that was in flight when
\* clearRecording (with an artifact) or clearTranscription ran does not
\* repopulate transcriptionResult, transcriptionError or lastTranscriptionTime
\* and plays no response audio.
C32_ClearedResultsStayCleared ==
  [][\A c \in CallIds :
       (RequestAnswered(c) /\ calls[c].stale) =>
         UNCHANGED <<transcriptionResult, transcriptionError, lastTranscriptionTime,
                     transcriptionAudioUrl, playing>>]_vars

\* C33: isTranscribing is true exactly while at least one transcription
\* request issued by transcribeAudio awaits its answer.
C33_TranscribingIffAwaited ==
  isTranscribing <=> AwaitedRequests # {}

\* the most recently issued request of the component
NewestRequest == Len(calls)

\* C34: once all overlapping requests are answered the displayed result or
\* error is the outcome of the most recently issued request; so the answer to
\* an older request that arrives last, after the newest was answered, does not
\* change what is displayed.
C34_NewestRequestWins ==
  [][\A c \in CallIds :
       ( /\ RequestAnswered(c)
         /\ c < NewestRequest
         /\ calls[NewestRequest].phase = "done"
         /\ ~calls[c].stale
         /\ \A d \in CallIds : calls'[d].phase = "done" ) =>
         UNCHANGED <<transcriptionResult, transcriptionError>>]_vars

(***************************************************************************)
(* Claims about overlapping recording passes (checked under SpecCapture).  *)
(***************************************************************************)
\* the recorders that are recording, and the streams whose tracks are live
ActiveRecorders == {r \in RecorderIds : recorders[r].state = "recording"}
LiveStreams == {r \in RecorderIds : recorders[r].tracks = "live"}

\* C35: at most one recorder is active and at most one microphone stream is
\* live, and isRecording is true exactly when the recorder referenced by
\* mediaRecorder is active (stated here for the states before teardown).
C35_SingleActiveRecorder ==
  ~destroyed =>
    /\ Cardinality(ActiveRecorders) <= 1
    /\ Cardinality(LiveStreams) <= 1
    /\ isRecording <=> (mediaRecorder # NoRecorder /\ mediaRecorder \in ActiveRecorders)

\* the object URLs created and not yet revoked
UnrevokedUrls == {u \in UrlIds : urls[u].revoked = 0}

\* C36: before teardown every object URL created and not yet revoked is the
\* current value of audioUrl or transcriptionAudioUrl.
C36_NoReferenceOverwritten ==
  ~destroyed => UnrevokedUrls \subseteq {audioUrl, transcriptionAudioUrl}

(***************************************************************************)
(* Claims about the object URLs held by the component (under Spec).        *)
(***************************************************************************)
\* reference ref is null or refers to an object URL that is not revoked
Usable(ref) == ref # NoUrl => urls[ref].revoked = 0

\* C37: before teardown a non-null audioUrl or transcriptionAudioUrl refers to
\* an object URL that has not been revoked and no object URL is revoked twice,
\* also after the audio payload of a response failed to decode; in that case
\* transcriptionResult stays set and transcriptionError stays null.
C37_HeldReferencesUsable ==
  /\ [](~destroyed =>
          /\ Usable(audioUrl)
          /\ Usable(transcriptionAudioUrl)
          /\ \A u \in UrlIds : urls[u].revoked <= 1)
  /\ [][notices' = <<MsgAudioError, MsgCompleted>> =>
          transcriptionResult' # Null /\ transcriptionError' = transcriptionError]_vars

(***************************************************************************)
(* Claims about submissions under overlapping passes (under SpecOverlap).  *)
(***************************************************************************)
\* the step in which transcribeAudio issues a request, and its audio blob
Submits == Len(calls') = Len(calls) + 1
Submitted == calls'[Len(calls')].blob

\* C38: no transcription request is issued while isRecording is true, and
\* every submitted audio blob consists of the fragments of exactly one
\* completed recording pass.
C38_SubmitsOneCompletedPass ==
  [][Submits =>
       /\ ~isRecording
       /\ \E r \in RecorderIds :
            /\ recorders[r].state = "stopped"
            /\ Submitted = NonEmptyDelivered(r)]_vars

====
